---- MODULE Spec2Model ----
(***************************************************************************)
(* Realzen Agent: a two-node LangGraph loop (call_model <-> tools) and the *)
(* two tools it dispatches to, search_for_properties_by_location and       *)
(* calculate_cash_on_cash.                                                 *)
(*                                                                         *)
(* Three specifications share the variables:                               *)
(*   Spec        the agent loop of graph.py                                *)
(*   SpecSearch  search_for_properties_by_location applied to drawn inputs *)
(*   SpecCalc    calculate_cash_on_cash applied to drawn inputs            *)
(***************************************************************************)
EXTENDS Integers, Sequences, FiniteSets, TLC

VARIABLES
    pc,          \* node the graph is at: "call_model", "tools", "__end__" (done),
                 \* or "failed" once an exception has left the run
                 \* (SpecSearch / SpecCalc: "ready", "returned", "raised")
    messages,    \* State.messages
    error,       \* exception that left the run / the function, or "none"
    env,         \* process environment and library build: RAPIDAPI_KEY set?,
                 \* ToolNode handle_tool_errors default
    modelCalls,  \* number of call_model executions so far
    toolRuns,    \* the tool executions so far, in order: the tool call's id and,
                 \* for a search, what the listings API did with its request
    raised,      \* exceptions raised so far by any step, in order
    args,        \* SpecSearch / SpecCalc: the arguments of the call
    upstream,    \* SpecSearch: what the listings API does with the request
    requests,    \* SpecSearch: the params of each requests.get issued, in order
    ret          \* SpecSearch / SpecCalc: the value returned

vars == <<pc, messages, error, env, modelCalls, toolRuns, raised, args,
          upstream, requests, ret>>

----------------------------------------------------------------------------
(* Bounds *)

\* call_model executions per run (the source has no loop bound)
MaxTurns == 3
\* tool calls requested in one run, over all its assistant messages
MaxCalls == 3
\* entries of the upstream `results` array
MaxResults == 3
\* largest Configuration.max_search_results drawn
MaxLimit == 2

None == "none"

----------------------------------------------------------------------------
(* Generic sequence helpers *)

Last(s) == s[Len(s)]

IsPrefix(s, t) == Len(s) <= Len(t) /\ SubSeq(t, 1, Len(s)) = s

Range(s) == {s[i] : i \in 1..Len(s)}

\* all sequences over S of length 0..n
SeqsUpTo(S, n) == UNION {[1..k -> S] : k \in 0..n}

----------------------------------------------------------------------------
(* Python float, as far as calculate_cash_on_cash can tell values apart:   *)
(* a finite value is a fixed-point integer (v = value * One, truncated), *)
(* and the two kinds of non-finite value, inf (v = its sign) and nan, are  *)
(* kept because 0 * inf = nan is not zero.  Money is in millions.          *)

\* fixed-point resolution of a finite float
One == 1000000
\* MulFix and DivFix work digit-wise in these bases to stay within 32 bits
MulBase == 1000
DivBase == 100

Fin(n) == [k |-> "fin", v |-> n]
Inf(s) == [k |-> "inf", v |-> s]
NaN == [k |-> "nan", v |-> 0]

Abs(n) == IF n < 0 THEN -n ELSE n

Sgn(a) == IF a.v < 0 THEN -1 ELSE IF a.v > 0 THEN 1 ELSE 0

\* floor(a * b / One) for a, b >= 0
MulFix(a, b) ==
    LET a1 == a \div MulBase
        a0 == a % MulBase
        b1 == b \div MulBase
        b0 == b % MulBase
    IN  a1 * b1 + (a1 * b0 + a0 * b1 + (a0 * b0) \div MulBase) \div MulBase

\* floor(a * One / b) for a >= 0, b > 0: long division, three base-100 digits
DivFix(a, b) ==
    LET q0 == a \div b
        r0 == a % b
        q1 == (r0 * DivBase) \div b
        r1 == (r0 * DivBase) % b
        q2 == (r1 * DivBase) \div b
        r2 == (r1 * DivBase) % b
        q3 == (r2 * DivBase) \div b
    IN  ((q0 * DivBase + q1) * DivBase + q2) * DivBase + q3

RECURSIVE PowFix(_, _)
\* b ** n for an integer n >= 0, by repeated squaring
PowFix(b, n) ==
    IF n = 0 THEN One
    ELSE LET h == PowFix(b, n \div 2)
         IN  IF n % 2 = 0 THEN MulFix(h, h) ELSE MulFix(MulFix(h, h), b)

\* a * b
FMul(a, b) ==
    IF a.k = "nan" \/ b.k = "nan" THEN NaN
    ELSE IF a.k = "inf" \/ b.k = "inf"
         THEN IF Sgn(a) * Sgn(b) = 0 THEN NaN ELSE Inf(Sgn(a) * Sgn(b))
    ELSE Fin(Sgn(a) * Sgn(b) * MulFix(Abs(a.v), Abs(b.v)))

FNeg(a) == IF a.k = "nan" THEN NaN ELSE [a EXCEPT !.v = -a.v]

\* a + b
FAdd(a, b) ==
    IF a.k = "nan" \/ b.k = "nan" THEN NaN
    ELSE IF a.k = "inf" /\ b.k = "inf" THEN (IF a.v = b.v THEN a ELSE NaN)
    ELSE IF a.k = "inf" THEN a
    ELSE IF b.k = "inf" THEN b
    ELSE Fin(a.v + b.v)

\* a - b
FSub(a, b) == FAdd(a, FNeg(b))

Returned(x) == [exc |-> None, value |-> x]
Raised(e) == [exc |-> e, value |-> None]

\* a / b by IEEE 754 rules, with no exception for a zero divisor
FDiv_ieee(a, b) ==
    IF a.k = "nan" \/ b.k = "nan" THEN Returned(NaN)
    ELSE IF b.k = "fin" /\ b.v = 0
         THEN IF Sgn(a) = 0 THEN Returned(NaN) ELSE Returned(Inf(Sgn(a)))
    ELSE IF a.k = "inf" /\ b.k = "inf" THEN Returned(NaN)
    ELSE IF a.k = "inf" THEN Returned(Inf(Sgn(a) * Sgn(b)))
    ELSE IF b.k = "inf" THEN Returned(Fin(0))
    ELSE Returned(Fin(Sgn(a) * Sgn(b) * DivFix(Abs(a.v), Abs(b.v))))

\* a / b: float division raises ZeroDivisionError for a zero divisor, whatever
\* the dividend is (also inf and nan); a nan divisor is not zero
FDiv(a, b) ==
    IF b.k = "fin" /\ b.v = 0 THEN Raised("ZeroDivisionError")
    ELSE IF a.k = "nan" \/ b.k = "nan" THEN Returned(NaN)
    ELSE IF a.k = "inf" /\ b.k = "inf" THEN Returned(NaN)
    ELSE IF a.k = "inf" THEN Returned(Inf(Sgn(a) * Sgn(b)))
    ELSE IF b.k = "inf" THEN Returned(Fin(0))
    ELSE Returned(Fin(Sgn(a) * Sgn(b) * DivFix(Abs(a.v), Abs(b.v))))

----------------------------------------------------------------------------
(* calculate_cash_on_cash (utils/tools.py) *)

\* 0.065 / 12
interest_rate == Fin(DivFix(65000, 12 * One))
\* 30-year fixed-rate mortgage
loan_term == 30
\* (1 + interest_rate) ** (loan_term * 12)
Growth == Fin(PowFix(One + interest_rate.v, loan_term * 12))
\* national average property tax, 0.9%
PropertyTaxRate == Fin(9000)
\* management fee, 10% of the rent
ManagementRate == Fin(100000)
Twelve == Fin(12 * One)

calculate_cash_on_cash(home_price, rent, tax_assessed_value, down_payment) ==
    LET down_payment_amount == FMul(home_price, down_payment)
        loan_amount == FSub(home_price, down_payment_amount)
        annual_property_tax == FMul(tax_assessed_value, PropertyTaxRate)
        monthly == FDiv(FMul(loan_amount, FMul(interest_rate, Growth)),
                        FSub(Growth, Fin(One)))
        annual_mortgage_payment == FMul(monthly.value, Twelve)
        management_fee == FMul(FMul(rent, ManagementRate), Twelve)
        cash_flow == FMul(rent, Twelve)
    IN  FDiv(FSub(FSub(FSub(cash_flow, annual_property_tax),
                       annual_mortgage_payment), management_fee),
             down_payment_amount)

----------------------------------------------------------------------------
(* search_for_properties_by_location (utils/tools.py) *)

PropertyTypes ==
    {"isSingleFamily", "isMultiFamily", "isCondo", "isTownhouse",
     "isApartment", "isLotLand", "isManufactured"}

EmptyDict == [x \in {} |-> None]

\* a merge in which the earlier mapping wins
DictMerge_first_wins(a, b) ==
    [x \in DOMAIN a \cup DOMAIN b |-> IF x \in DOMAIN a THEN a[x] ELSE b[x]]

\* {**a, **b}: on a key of both, the later mapping wins
DictMerge(a, b) ==
    [x \in DOMAIN a \cup DOMAIN b |-> IF x \in DOMAIN b THEN b[x] ELSE a[x]]

\* s[:n + 1]
PySlice_one_more(s, n) == SubSeq(s, 1, IF n + 1 < Len(s) THEN n + 1 ELSE Len(s))

\* s[:n], n an int of either sign
PySlice(s, n) ==
    IF n >= 0 THEN SubSeq(s, 1, IF n < Len(s) THEN n ELSE Len(s))
    ELSE SubSeq(s, 1, IF Len(s) + n > 0 THEN Len(s) + n ELSE 0)

\* the default of `types` left set in the flags
property_types_default_kept(types) ==
    [t \in PropertyTypes \cup types |->
        IF t \in types \/ t = "isSingleFamily" THEN "true" ELSE "false"]

\* lines 39-49: every flag "false", then "true" for each requested type
property_types(types) ==
    [t \in PropertyTypes \cup types |-> IF t \in types THEN "true" ELSE "false"]

\* lines 55-60
querystring(location, types, kwargs) ==
    DictMerge(DictMerge([location |-> location, output |-> "json"],
                        property_types(types)),
              kwargs)

\* the key read with os.environ.get: a missing key does not raise
search_for_properties_by_location_env_get(location, limit, types, kwargs, e, up) ==
    LET q == DictMerge(DictMerge([location |-> location, output |-> "json"],
                                 [t \in PropertyTypes \cup types |->
                                     IF t \in types THEN "true" ELSE "false"]),
                       kwargs)
    IN  IF ~up.reachable
        THEN [exc |-> "ConnectionError", value |-> None, sent |-> <<q>>]
        ELSE IF "results" \notin DOMAIN up.body
        THEN [exc |-> "KeyError", value |-> None, sent |-> <<q>>]
        ELSE [exc |-> None,
              value |-> SubSeq(up.body["results"], 1,
                               IF limit < Len(up.body["results"]) THEN limit
                               ELSE Len(up.body["results"])),
              sent |-> <<q>>]

\* The call with the environment e and the upstream behaviour up; `sent` is
\* the params of the requests issued.
search_for_properties_by_location(location, limit, types, kwargs, e, up) ==
    LET q == querystring(location, types, kwargs)
    IN  IF ~e.RAPIDAPI_KEY
        THEN [exc |-> "KeyError", value |-> None, sent |-> <<>>]
        ELSE IF ~up.reachable
        THEN [exc |-> "ConnectionError", value |-> None, sent |-> <<q>>]
        ELSE IF "results" \notin DOMAIN up.body
        THEN [exc |-> "KeyError", value |-> None, sent |-> <<q>>]
        ELSE [exc |-> None, value |-> PySlice(up.body["results"], limit),
              sent |-> <<q>>]

----------------------------------------------------------------------------
(* The agent loop (graph.py) *)

\* A message of State.messages.  type "chat" stands for any message that is
\* not an AIMessage, HumanMessage or ToolMessage.
Message(type, id, tool_calls, tool_call_id, status, content) ==
    [type |-> type, id |-> id, tool_calls |-> tool_calls,
     tool_call_id |-> tool_call_id, status |-> status, content |-> content]

HumanMessage(id) == Message("human", id, <<>>, 0, None, None)
AIMessage(id, tool_calls) == Message("ai", id, tool_calls, 0, None, None)
ChatMessage(id) == Message("chat", id, <<>>, 0, None, None)
ToolMessage(id, tool_call_id, status, content) ==
    Message("tool", id, <<>>, tool_call_id, status, content)

\* a messages channel without the reducer: each update overwrites it
add_messages_overwrite(left, right) == right

RECURSIVE add_messages(_, _)
\* The reducer of State.messages: a message whose id is already in the list
\* replaces that entry, any other is appended.
add_messages(left, right) ==
    IF right = <<>> THEN left
    ELSE LET m == Head(right)
             hit == {i \in 1..Len(left) : left[i].id = m.id}
             merged == IF hit = {} THEN Append(left, m)
                       ELSE [i \in 1..Len(left) |->
                               IF i \in hit THEN m ELSE left[i]]
         IN  add_messages(merged, Tail(right))

\* Message ids are fresh: the provider's for a model response, a new uuid for
\* the others.  The n-th message created in a run gets id n.
FreshId(msgs, i) == Len(msgs) + i

\* line 27: the entrypoint
EntryPoint == "call_model"

\* line 63: the normal edge out of tools
EdgeFromTools == "call_model"

\* the two targets swapped
route_model_output_inverted(msgs) ==
    IF Last(msgs).type # "ai" THEN Raised("ValueError")
    ELSE IF Last(msgs).tool_calls = <<>> THEN Returned("tools")
    ELSE Returned("__end__")

\* a turn cap in the router: finish once the conversation is long
route_model_output_capped(msgs) ==
    IF Last(msgs).type # "ai" THEN Raised("ValueError")
    ELSE IF Last(msgs).tool_calls = <<>> \/ Len(msgs) >= 4 THEN Returned("__end__")
    ELSE Returned("tools")

\* without the isinstance check
route_model_output_unchecked(msgs) ==
    IF Last(msgs).tool_calls = <<>> THEN Returned("__end__")
    ELSE Returned("tools")

\* lines 30-50
route_model_output(msgs) ==
    LET last_message == Last(msgs)
    IN  IF last_message.type # "ai" THEN Raised("ValueError")
        ELSE IF last_message.tool_calls = <<>> THEN Returned("__end__")
        ELSE Returned("tools")

\* The requests the model is drawn to make: name and arguments
SearchCall ==
    [name |-> "search_for_properties_by_location",
     args |-> [location |-> "San Francisco, CA", types |-> {"isSingleFamily"},
               kwargs |-> EmptyDict]]
CalcCall ==
    [name |-> "calculate_cash_on_cash",
     args |-> [home_price |-> Fin(500000), rent |-> Fin(3000),
               tax_assessed_value |-> Fin(400000),
               down_payment |-> Fin(200000)]]
CalcCallNoDownPayment ==
    [name |-> "calculate_cash_on_cash",
     args |-> [home_price |-> Fin(500000), rent |-> Fin(3000),
               tax_assessed_value |-> Fin(400000), down_payment |-> Fin(0)]]

ToolCallChoices == {SearchCall, CalcCall, CalcCallNoDownPayment}

\* ids of the tool calls of the turn-th model response
CallId(turn, i) == turn * (MaxCalls + 1) + i

WithIds(calls, turn) ==
    [i \in 1..Len(calls) |->
        [name |-> calls[i].name, args |-> calls[i].args, id |-> CallId(turn, i)]]

\* What the listings API may do with one request
Listing(m) == [i \in 1..m |-> [zpid |-> m + 1 - i]]
Unreachable == [reachable |-> FALSE, body |-> EmptyDict]
NoResults == [reachable |-> TRUE, body |-> [message |-> "You are not subscribed"]]
Results(m) == [reachable |-> TRUE, body |-> [results |-> Listing(m)]]

LoopUpstreams == {Unreachable, NoResults, Results(MaxResults)}

\* Configuration.max_search_results of the run
LoopLimit == MaxLimit

\* One tool of TOOLS (lines 110-113) invoked with a tool call
RunTool(call, e, up) ==
    IF call.name = "search_for_properties_by_location"
    THEN LET r == search_for_properties_by_location(
                      call.args.location, LoopLimit, call.args.types,
                      call.args.kwargs, e, up)
         IN  [exc |-> r.exc, value |-> r.value]
    ELSE calculate_cash_on_cash(call.args.home_price, call.args.rent,
                                call.args.tax_assessed_value,
                                call.args.down_payment)

Idle == /\ args = None /\ upstream = None /\ requests = <<>> /\ ret = None

Init ==
    /\ pc = EntryPoint
    /\ messages = <<HumanMessage(1)>>
    /\ error = None
    /\ env \in [RAPIDAPI_KEY : BOOLEAN, handle_tool_errors : BOOLEAN]
    /\ modelCalls = 0
    /\ toolRuns = <<>>
    /\ raised = <<>>
    /\ Idle

RECURSIVE Requested(_)
\* number of tool calls the assistant messages of msgs carry
Requested(msgs) ==
    IF msgs = <<>> THEN 0
    ELSE Len(Head(msgs).tool_calls) + Requested(Tail(msgs))

\* call_model raises: the inference endpoint failed.  (modelCalls < MaxTurns
\* bounds the state space; the graph has no such guard.)
CallModelRaises ==
    /\ pc = "call_model"
    /\ modelCalls < MaxTurns
    /\ modelCalls' = modelCalls + 1
    /\ pc' = "failed"
    /\ error' = "ModelInvocationError"
    /\ raised' = Append(raised, "ModelInvocationError")
    /\ UNCHANGED <<messages, env, toolRuns, args, upstream, requests, ret>>

\* call_model returns {"messages": [response]}; the state is updated and the
\* conditional edge (lines 54-59) routes on it
CallModelReturns(response) ==
    /\ pc = "call_model"
    /\ modelCalls < MaxTurns
    /\ modelCalls' = modelCalls + 1
    /\ messages' = add_messages(messages, <<response>>)
    /\ LET next == route_model_output(messages')
       IN  IF next.exc # None
           THEN /\ pc' = "failed"
                /\ error' = next.exc
                /\ raised' = Append(raised, next.exc)
           ELSE /\ pc' = IF next.value = "__end__" THEN "__end__" ELSE "tools"
                /\ UNCHANGED <<error, raised>>
    /\ UNCHANGED <<env, toolRuns, args, upstream, requests, ret>>

CallModel ==
    \/ CallModelRaises
    \/ \E calls \in SeqsUpTo(ToolCallChoices, MaxCalls - Requested(messages)) :
          CallModelReturns(AIMessage(FreshId(messages, 1),
                                     WithIds(calls, modelCalls + 1)))
    \/ CallModelReturns(ChatMessage(FreshId(messages, 1)))

\* The ToolMessage ToolNode makes of one outcome
ToolResult(msgs, i, call, r) ==
    IF r.exc = None
    THEN ToolMessage(FreshId(msgs, i), call.id, "success", r.value)
    ELSE ToolMessage(FreshId(msgs, i), call.id, "error", r.exc)

\* the results in the reverse of request order
ToolOutputs_reversed(msgs, calls, out) ==
    [i \in 1..Len(calls) |->
        ToolResult(msgs, i, calls[Len(calls) + 1 - i], out[Len(calls) + 1 - i])]

\* The record of one tool execution
Run(call, up) ==
    [id |-> call.id,
     net |-> IF call.name = "search_for_properties_by_location" THEN <<up>>
             ELSE <<>>]

\* The messages ToolNode returns: one per request, in request order
ToolOutputs(msgs, calls, out) ==
    [i \in 1..Len(calls) |-> ToolResult(msgs, i, calls[i], out[i])]

\* ToolNode(TOOLS) (line 23) followed by the edge tools -> call_model (line 63).
\* Every request of the last assistant message is run.  ToolNode is built
\* with its defaults, and what it does with an exception of a tool is the
\* library's choice: with handle_tool_errors the exception becomes the
\* request's ToolMessage (status "error") and the node returns; without, the
\* first exception in request order leaves the node and the run.
Tools ==
    /\ pc = "tools"
    /\ LET calls == Last(messages).tool_calls
           n == Len(calls)
       IN  \E ups \in [1..n -> LoopUpstreams] :
             LET out == [i \in 1..n |-> RunTool(calls[i], env, ups[i])]
                 bad == {i \in 1..n : out[i].exc # None}
                 first == CHOOSE i \in bad : \A j \in bad : i <= j
                 errs == [i \in 1..n |-> IF i \in bad THEN out[i].exc ELSE None]
             IN  /\ toolRuns' = toolRuns \o [i \in 1..n |-> Run(calls[i], ups[i])]
                 /\ IF bad # {} /\ ~env.handle_tool_errors
                    THEN /\ pc' = "failed"
                         /\ error' = out[first].exc
                         /\ raised' = Append(raised, out[first].exc)
                         /\ UNCHANGED messages
                    ELSE /\ messages' = add_messages(messages,
                               ToolOutputs(messages, calls, out))
                         /\ raised' = raised \o SelectSeq(errs, LAMBDA x : x # None)
                         /\ pc' = EdgeFromTools
                         /\ UNCHANGED error
    /\ UNCHANGED <<env, modelCalls, args, upstream, requests, ret>>

Next == CallModel \/ Tools

Spec == Init /\ [][Next]_vars

----------------------------------------------------------------------------
(* search_for_properties_by_location applied to drawn inputs *)

NoLoop ==
    /\ messages = <<>> /\ error = None /\ modelCalls = 0
    /\ toolRuns = <<>> /\ raised = <<>>

\* the extra keyword arguments drawn: none, one the API knows, and three that
\* name a key the function sets itself.  `location` and `types` are parameters
\* of the function, so Python never binds a keyword of those names to kwargs.
KwargsChoices ==
    {EmptyDict, [page |-> "2"], [isCondo |-> "true"],
     [isSingleFamily |-> "false"], [output |-> "xml"]}

Upstreams == {Unreachable, NoResults} \cup {Results(m) : m \in 0..MaxResults}

InitSearch ==
    /\ pc = "ready"
    /\ NoLoop
    /\ env \in [RAPIDAPI_KEY : BOOLEAN, handle_tool_errors : {TRUE}]
    /\ args \in [location : {"San Francisco, CA"}, types : SUBSET PropertyTypes,
                 kwargs : KwargsChoices, limit : 1..MaxLimit]
    /\ upstream \in Upstreams
    /\ requests = <<>>
    /\ ret = None

Search ==
    /\ pc = "ready"
    /\ LET r == search_for_properties_by_location(
                    args.location, args.limit, args.types, args.kwargs,
                    env, upstream)
       IN  /\ pc' = IF r.exc = None THEN "returned" ELSE "raised"
           /\ error' = r.exc
           /\ requests' = r.sent
           /\ ret' = r.value
    /\ UNCHANGED <<messages, env, modelCalls, toolRuns, raised, args, upstream>>

NextSearch == Search

SpecSearch == InitSearch /\ [][NextSearch]_vars

----------------------------------------------------------------------------
(* calculate_cash_on_cash applied to drawn inputs.  1e999 in a tool call's *)
(* JSON arguments parses to inf, so the non-finite floats are inputs too.  *)

HomePrices == {Fin(0), Fin(200000), Fin(500000), Inf(1), NaN}
Rents == {Fin(0), Fin(3000)}
TaxValues == {Fin(0), Fin(400000)}
DownPayments == {Fin(0), Fin(200000), Fin(One), Fin(-200000)}

InitCalc ==
    /\ pc = "ready"
    /\ NoLoop
    /\ env = [RAPIDAPI_KEY |-> TRUE, handle_tool_errors |-> TRUE]
    /\ args \in [home_price : HomePrices, rent : Rents,
                 tax_assessed_value : TaxValues, down_payment : DownPayments]
    /\ upstream = None
    /\ requests = <<>>
    /\ ret = None

Calc ==
    /\ pc = "ready"
    /\ LET r == calculate_cash_on_cash(args.home_price, args.rent,
                                       args.tax_assessed_value,
                                       args.down_payment)
       IN  /\ pc' = IF r.exc = None THEN "returned" ELSE "raised"
           /\ error' = r.exc
           /\ ret' = r.value
    /\ UNCHANGED <<messages, env, modelCalls, toolRuns, raised, args, upstream,
                   requests>>

NextCalc == Calc

SpecCalc == InitCalc /\ [][NextCalc]_vars

----------------------------------------------------------------------------
(* Properties of the agent loop (Spec) *)

\* a model-invocation step that has just appended its response
ModelResponded ==
    /\ modelCalls' = modelCalls + 1
    /\ Len(messages') = Len(messages) + 1

\* C1: after a model-invocation step the loop is in done (__end__) iff the
\* assistant message just appended has an empty tool-call list, and in tool
\* dispatch otherwise; once in done, no further model call or tool call is
\* made and nothing changes.
C1_RoutesOnToolCalls ==
    [][ /\ (ModelResponded /\ Last(messages').type = "ai")
           => /\ (pc' = "__end__") <=> (Last(messages').tool_calls = <<>>)
              /\ (pc' # "__end__") => (pc' = "tools")
        /\ (pc = "__end__") => UNCHANGED vars ]_vars

C1_Witness ==
    /\ pc = "__end__"
    /\ modelCalls >= 2
    /\ toolRuns # <<>>
    /\ Last(messages).type = "ai"

\* position of the most recent assistant message
LastAI(msgs) ==
    CHOOSE k \in 1..Len(msgs) :
        /\ msgs[k].type = "ai"
        /\ \A j \in (k + 1)..Len(msgs) : msgs[j].type # "ai"

\* every request of the most recent assistant message has its result appended
\* after it: one message per request, in request order, and nothing else
ResultsAppended ==
    LET k == LastAI(messages)
        calls == messages[k].tool_calls
    IN  /\ Len(calls) >= 1
        /\ Len(messages) = k + Len(calls)
        /\ \A i \in 1..Len(calls) :
              /\ messages[k + i].type = "tool"
              /\ messages[k + i].tool_call_id = calls[i].id

\* C2: a model-invocation step that follows tool dispatch starts only when
\* every request of the assistant message has exactly one result message
\* appended, in request order; and a tool dispatch that has appended its
\* results always hands over to model invocation.
C2_ResultsBeforeNextModelCall ==
    /\ []((pc = "call_model" /\ modelCalls > 0) => ResultsAppended)
    /\ [][(pc = "tools" /\ messages' # messages) => (pc' = "call_model")]_vars

C2_Witness ==
    /\ pc = "call_model"
    /\ modelCalls > 0
    /\ Len(messages[LastAI(messages)].tool_calls) >= 2
    /\ ResultsAppended

\* C3: when the last message after a model-invocation step is not an
\* assistant message the loop has failed with the malformed-output error
\* (ValueError), and tool dispatch is only ever entered on an assistant message.
C3_MalformedOutputFails ==
    /\ (Last(messages).type = "chat") => (pc = "failed" /\ error = "ValueError")
    /\ (pc = "tools") => (Last(messages).type = "ai")
    /\ (error = "ValueError") => (Last(messages).type # "ai" /\ pc = "failed")

C3_Witness ==
    /\ pc = "failed"
    /\ error = "ValueError"
    /\ Last(messages).type = "chat"
    /\ toolRuns # <<>>

\* C6: the message sequence only grows: after every step the previous
\* sequence is a prefix of the new one.
C6_AppendOnly == [][IsPrefix(messages, messages')]_vars

C6_Witness ==
    /\ Len(messages) >= 5
    /\ \E i \in 1..Len(messages) : messages[i].type = "tool"

\* the tool calls requested so far, and those whose tool has been run
RequestedCalls ==
    UNION {Range(messages[k].tool_calls) : k \in 1..Len(messages)}
CallOf(run) == CHOOSE c \in RequestedCalls : c.id = run.id
ToolMessagesFor(id) ==
    {i \in 1..Len(messages) :
        messages[i].type = "tool" /\ messages[i].tool_call_id = id}

\* a tool execution that raises: a search without RAPIDAPI_KEY, with the API
\* unreachable or with a response that has no `results`, and a calculation
\* whose down payment amount is zero
MustRaise(run) ==
    LET c == CallOf(run)
    IN  IF c.name = "search_for_properties_by_location"
        THEN \/ ~env.RAPIDAPI_KEY
             \/ ~run.net[1].reachable
             \/ "results" \notin DOMAIN run.net[1].body
        ELSE FMul(c.args.home_price, c.args.down_payment) = Fin(0)

LoopErrors == {"ModelInvocationError", "ValueError"}

\* C7 as stated: any error raised during a run terminates it, nothing is
\* recovered and no step follows.
C7_Original == (raised # <<>>) => (pc = "failed" /\ Len(raised) = 1)

ErrorsInv ==
    /\ (pc = "failed") <=> (error # None)
    /\ (error # None) => (raised # <<>> /\ error = Last(raised))
    /\ \A i \in 1..Len(raised) :
          raised[i] \in LoopErrors => (i = Len(raised) /\ pc = "failed")
    /\ ~env.handle_tool_errors
          => ((raised # <<>>) => (pc = "failed" /\ Len(raised) = 1))
    /\ \A r \in Range(toolRuns) :
          /\ r.id \in {c.id : c \in RequestedCalls}
          /\ MustRaise(r) =>
                IF env.handle_tool_errors
                THEN /\ Cardinality(ToolMessagesFor(r.id)) = 1
                     /\ \A i \in ToolMessagesFor(r.id) :
                           messages[i].status = "error"
                ELSE pc = "failed" /\ error \notin LoopErrors
    /\ env.handle_tool_errors
          => Cardinality({i \in 1..Len(messages) : messages[i].status = "error"})
               = Cardinality({i \in 1..Len(raised) : raised[i] \notin LoopErrors})
    /\ \A i, j \in 1..Len(toolRuns) :
          (toolRuns[i].id = toolRuns[j].id) => (i = j)

\* C7 (amended): an error of the model invocation or of the routing check, and
\* a tool error that ToolNode re-raises, terminates the run: no step follows
\* and nothing is retried.  The tools themselves catch nothing (a missing
\* RAPIDAPI_KEY and a zero down payment amount always raise).  When ToolNode
\* handles tool errors, a raising call gets one error result message, is not
\* run again by the loop, and the loop goes on.
C7_ErrorsPropagate ==
    /\ []ErrorsInv
    /\ [][(pc = "failed") => UNCHANGED vars]_vars

C7_Witness ==
    /\ pc = "failed"
    /\ error = "ZeroDivisionError"
    /\ modelCalls >= 2
    /\ ~env.handle_tool_errors

\* every model response so far carried at least one tool call request
AllResponsesCall ==
    \A i \in 1..Len(messages) :
        (messages[i].type = "ai") => (messages[i].tool_calls # <<>>)

----------------------------------------------------------------------------
(* Properties of search_for_properties_by_location (SpecSearch) *)

Flag(t) == IF t \in args.types THEN "true" ELSE "false"

\* C4 as stated: in the outgoing query exactly the requested type flags are
\* "true" and all the others "false".
C4_Original ==
    (requests # <<>>) => \A t \in PropertyTypes : requests[1][t] = Flag(t)

\* C4 (amended): one query goes out at most, and in it every type flag that no
\* extra keyword argument names is "true" exactly if its type was requested;
\* a flag an extra keyword argument names carries that argument's value.
C4_FlagsFollowTypes ==
    /\ Len(requests) <= 1
    /\ (requests # <<>>) =>
          \A t \in PropertyTypes :
              requests[1][t] = IF t \in DOMAIN args.kwargs THEN args.kwargs[t]
                               ELSE Flag(t)

C4_Witness ==
    /\ requests # <<>>
    /\ args.types = {"isCondo", "isLotLand"}
    /\ DOMAIN args.kwargs = {"page"}
    /\ requests[1]["isCondo"] = "true"
    /\ requests[1]["isSingleFamily"] = "false"

BuiltinKeys == {"location", "output"} \cup PropertyTypes

\* C10: in the query sent, an extra keyword argument whose name is one of the
\* keys the function sets itself (location, output, the seven type flags)
\* takes precedence: the value sent for that key is the extra argument's.
C10_KwargsTakePrecedence ==
    (requests # <<>>) =>
        \A x \in DOMAIN args.kwargs \cap BuiltinKeys :
            requests[1][x] = args.kwargs[x]

C10_Witness ==
    /\ requests # <<>>
    /\ DOMAIN args.kwargs = {"isCondo"}
    /\ "isCondo" \notin args.types
    /\ requests[1]["isCondo"] = "true"

----------------------------------------------------------------------------
(* Properties of calculate_cash_on_cash (SpecCalc) *)

DividesByZero == pc = "raised" /\ error = "ZeroDivisionError"

\* C8 as stated: division by zero is raised whenever the down payment amount
\* is zero, in particular for down_payment = 0 with any home_price.
C8_Original ==
    (pc # "ready") =>
        /\ (FMul(args.home_price, args.down_payment) = Fin(0)) => DividesByZero
        /\ (args.down_payment = Fin(0)) => DividesByZero

\* C8 (amended): division by zero is raised, and no ratio returned, whenever
\* the down payment amount is zero, in particular for down_payment = 0 with
\* any finite home_price; with an infinite or NaN home_price the amount is
\* NaN, not zero, and NaN is returned.
C8_ZeroDownPaymentRaises ==
    (pc # "ready") =>
        /\ (FMul(args.home_price, args.down_payment) = Fin(0)) => DividesByZero
        /\ (args.down_payment = Fin(0) /\ args.home_price.k = "fin")
              => DividesByZero
        /\ (args.down_payment = Fin(0) /\ args.home_price.k # "fin")
              => (pc = "returned" /\ ret = NaN)

C8_Witness ==
    /\ DividesByZero
    /\ args.down_payment = Fin(0)
    /\ args.home_price = Fin(500000)
    /\ args.rent = Fin(3000)

====
